---- MODULE Spec2Model ----
(***************************************************************************)
(* Model of the iridium-labs contracts: the timelock auction contract      *)
(* (src/tlock_auction/lib.rs) together with the timelock encryption it     *)
(* calls (crate `crypto`, modelled from the design document) and the test  *)
(* helpers that exercise the encrypt/decrypt round trip; the asset         *)
(* exchange (src/iris_asset_exchange/lib.rs); and the limited-use access   *)
(* rule (src/composable_access_rules/limited_use/lib.rs).  Each contract   *)
(* has its own specification; the variables of the others stay as they     *)
(* were initialised.                                                       *)
(***************************************************************************)
EXTENDS Integers, Sequences, FiniteSets, TLC

\* ------------------------------------------------------------------------
\* Bounds of the model
\* ------------------------------------------------------------------------
NumAccounts == 2
MaxBid == 2
MaxSlots == 3
MaxRevealed == 2
MaxRng == 24

MaxLimit == 2

\* width of the words that stand for u64
WordBits == 2

\* the first status code no from_status_code of the exchange knows
UnknownStatus == 4

Accounts == 1..NumAccounts

\* ------------------------------------------------------------------------
\* Timelock encryption (crate `crypto`): a toy Boneh-Franklin IBE over the
\* field of integers modulo Q, Shamir sharing of the symmetric key over the
\* slot identities, and an encrypt-then-MAC symmetric cipher.
\* ------------------------------------------------------------------------
Q == 5
Generator == 2
MasterSecret == 3

Mod(a) == ((a % Q) + Q) % Q

Inv(a) == CHOOSE b \in 1..(Q - 1) : Mod(a * b) = 1

RECURSIVE Pow(_, _)
Pow(a, n) == IF n = 0 THEN 1 ELSE a * Pow(a, n - 1)

RECURSIVE SumSet(_, _)
SumSet(f, S) ==
    IF S = {} THEN 0
    ELSE LET x == CHOOSE y \in S : TRUE IN f[x] + SumSet(f, S \ {x})

RECURSIVE ProdSet(_, _)
ProdSet(f, S) ==
    IF S = {} THEN 1
    ELSE LET x == CHOOSE y \in S : TRUE IN Mod(f[x] * ProdSet(f, S \ {x}))

Range(s) == {s[i] : i \in DOMAIN s}

\* setup() -> (public_params, master_secret): generator p, public key q = s*p
test_ibe_params == [p |-> Generator, q |-> Mod(MasterSecret * Generator), s |-> MasterSecret]

\* extract(master_secret, identity) -> identity_secret_key
Extract(s, id) == Mod(s * id)

\* the slot secrets for a set of slot identities
ibe_extract(s, ids) == {[slot_id |-> id, key_material |-> Extract(s, id)] : id \in ids}

\* the random draws of an rng state
Rand(rng, i) == Mod((rng \div Pow(Q, i)) + i * (rng + 1))

\* the encryption randomness bound to the share (re-derivable at decryption)
H3(share, i) == 1 + ((share + i) % (Q - 1))

\* IBE encryption of one share under one identity
IbeEncrypt(p, q, id, i, share, t) ==
    LET r == H3(share, i) IN
    [id |-> id, u |-> Mod(r * p), v |-> Mod(share + r * q * id), t |-> t]

\* IBE decryption of one capsule component with the identity's secret key
IbeDecrypt(p, i, c, sk) ==
    LET share == Mod(c.v - c.u * sk) IN
    IF c.u = Mod(H3(share, i) * p)
    THEN [ok |-> TRUE, share |-> share]
    ELSE [ok |-> FALSE, share |-> 0]

\* Shamir polynomial: f(x) = key + a1 x + ... + a_{t-1} x^{t-1}
PolyEval(key, rng, t, x) ==
    Mod(key + SumSet([j \in 1..(t - 1) |-> Rand(rng, j) * Pow(x, j)], 1..(t - 1)))

\* Lagrange interpolation at 0 of the points (i, y[i]), i \in A
Interpolate(y, A) ==
    Mod(SumSet([i \in A |->
            Mod(y[i] * ProdSet([j \in A \ {i} |-> Mod(j * Inv(Mod(j - i)))], A \ {i}))],
        A))

\* Symmetric cipher: body and authentication tag
AesTag(key, nonce, body) == Mod(key * (body + 1) + nonce + 1)

AesEncrypt(key, nonce, m) ==
    LET body == Mod(m + key + 2 * nonce) IN <<body, AesTag(key, nonce, body)>>

AesDecrypt(key, nonce, ct) ==
    IF Len(ct) = 2 /\ ct[2] = AesTag(key, nonce, ct[1])
    THEN [ok |-> TRUE, msg |-> Mod(ct[1] - key - 2 * nonce), err |-> "none"]
    ELSE [ok |-> FALSE, msg |-> 0, err |-> "AuthenticationFailed"]

\* encrypt_bid(message, slot_schedule, threshold, rng)
Encrypt(p, q, m, slots, t, rng) ==
    IF t < 1 \/ t > Len(slots)
    THEN [ok |-> FALSE, err |-> "InvalidThreshold",
          aes_ct |-> [ciphertext |-> <<>>, nonce |-> 0], etf_ct |-> <<>>]
    ELSE LET key == Rand(rng, 0)
             nonce == Rand(rng, MaxSlots)
         IN [ok |-> TRUE, err |-> "none",
             aes_ct |-> [ciphertext |-> AesEncrypt(key, nonce, m), nonce |-> nonce],
             etf_ct |-> [i \in 1..Len(slots) |->
                          IbeEncrypt(p, q, slots[i], i, PolyEval(key, rng, t, i), t)]]

\* decrypt_bid(ciphertext, nonce, capsule, available_slot_secrets)
Decrypt(pp, ciphertext, nonce, capsule, secrets) ==
    LET have == {i \in DOMAIN capsule : \E s \in secrets : s.slot_id = capsule[i].id}
        sk(i) == (CHOOSE s \in secrets : s.slot_id = capsule[i].id).key_material
        dec == [i \in have |-> IbeDecrypt(pp, i, capsule[i], sk(i))]
    IN  IF capsule = <<>> \/ Cardinality(have) < capsule[1].t
        THEN [ok |-> FALSE, msg |-> 0, err |-> "InsufficientShares"]
        ELSE IF \E i \in have : ~dec[i].ok
        THEN [ok |-> FALSE, msg |-> 0, err |-> "CapsuleMismatch"]
        ELSE AesDecrypt(Interpolate([i \in have |-> dec[i].share], have), nonce, ciphertext)

\* ------------------------------------------------------------------------
\* Test helpers of the auction crate (mod tests)
\* ------------------------------------------------------------------------

\* add_bid that returns a zero nonce in place of the one used to encrypt
add_bid_zero_nonce(m, slots, t, p, q, rng) ==
    LET res == Encrypt(p, q, m, slots, t, rng) IN
    <<res.aes_ct.ciphertext, 0, res.etf_ct>>

\* tests::add_bid: encrypt the bid and return (ciphertext, nonce, capsule);
\* `unwrap` panics when the encryption fails
add_bid(m, slots, t, p, q, rng) ==
    LET res == Encrypt(p, q, m, slots, t, rng) IN
    <<res.aes_ct.ciphertext, res.aes_ct.nonce, res.etf_ct>>

add_bid_panics(m, slots, t, p, q, rng) == ~Encrypt(p, q, m, slots, t, rng).ok

\* ------------------------------------------------------------------------
\* The auction contract: storage (struct TlockAuction), the slot clock of
\* the chain extension, and the record of the last call and its outcome
\* ------------------------------------------------------------------------
VARIABLES auction_item, slot_ids, threshold, proposals, participants,
          winners, revealed_bids, authored, last, test,
          registry, limit, asset_registry, usage_counter, instantiated, executions,
          ext_calls, events

storage == <<auction_item, slot_ids, threshold, proposals, participants,
             winners, revealed_bids>>

\* storage of IrisAssetExchange
exchange_storage == <<registry>>

\* storage of LimitedUseRuleContract, whether it has been instantiated, and
\* how many execute calls of each address returned normally
limited_use_storage == <<limit, asset_registry, usage_counter>>
limited_use_vars == <<limited_use_storage, instantiated, executions>>

\* what the last message did to its environment: the chain extension calls
\* it issued and the events it emitted
env_vars == <<ext_calls, events>>

auction_vars == <<storage, authored, test>>

vars == <<auction_item, slot_ids, threshold, proposals, participants,
          winners, revealed_bids, authored, last, test,
          registry, limit, asset_registry, usage_counter, instantiated, executions,
          ext_calls, events>>

\* IrisAssetExchange::new and ::default: an empty registry
exchange_new == registry = <<>>

\* no LimitedUseRuleContract has been instantiated
limited_use_none ==
    /\ limit = 0
    /\ asset_registry = <<>>
    /\ usage_counter = <<>>
    /\ instantiated = FALSE
    /\ executions = [a \in Accounts |-> 0]

env_idle == ext_calls = <<>> /\ events = <<>>

\* the slot schedules auctions are created with
Schedules == {<<>>, [i \in 1..MaxSlots |-> i]}

\* the thresholds auctions are created with: zero, the threshold of the
\* tests, and one more than the number of slots
TestThreshold == 2

Thresholds(slots) == {0, TestThreshold, Len(slots) + 1}

\* the slot secrets available to the caller of complete: those of the
\* first k slots of the schedule
SecretIds == {{slot_ids[i] : i \in 1..k} : k \in 0..Len(slot_ids)}

\* a proposal no encryption produces (an empty capsule)
Garbage == <<<<0, 0>>, 0, <<>>>>

\* the rng state of the bidder of message m
BidderRng(m) == 6 * m + 1

\* the two amounts a bidder chooses between
BidsOf(caller) == {((caller - 1) % MaxBid) + 1, (caller % MaxBid) + 1}

\* the triples a caller may hand to propose for this auction: the
\* encryption of one of its amounts against the auction's schedule and
\* threshold, or a malformed proposal
ProposalInputs(caller) ==
    {add_bid(m, slot_ids, threshold, test_ibe_params.p, test_ibe_params.q, BidderRng(m)) :
        m \in {x \in BidsOf(caller) :
                  ~add_bid_panics(x, slot_ids, threshold, test_ibe_params.p,
                                  test_ibe_params.q, BidderRng(x))}}
    \cup {Garbage}

\* chain extension ETF::check_slot: has a block been authored in the slot
check_slot(slot_id) == slot_id \in authored

\* self.slot_ids[self.slot_ids.len() - 1] panics on an empty schedule
deadline_panics(slots) == Len(slots) = 0

deadline_slot(slots) == slots[Len(slots)]

idle == [pc |-> "idle", m |-> 0, slots |-> <<>>, t |-> 0, rng |-> 0, ids |-> {},
         res |-> <<>>, out |-> [ok |-> FALSE, msg |-> 0, err |-> "none"]]

\* TlockAuction::new
new(name, asset_id, amount, slots, t) ==
    /\ auction_item = [name |-> name, asset_id |-> asset_id, amount |-> amount]
    /\ slot_ids = slots
    /\ threshold = t
    /\ proposals = <<>>
    /\ participants = <<>>
    /\ winners = <<>>
    /\ revealed_bids = <<>>

\* TlockAuction::default
default == new("", 0, 0, <<>>, 0)

Init ==
    /\ \/ default
       \/ \E slots \in Schedules : \E t \in Thresholds(slots) : new("test1", 1, 1, slots, t)
    /\ authored = {}
    /\ last = [op |-> "new", caller |-> 0, arg |-> <<>>, result |-> "ok"]
    /\ test = idle
    /\ exchange_new /\ limited_use_none /\ env_idle

\* propose that pushes the caller without the `contains` check
propose_participants_always_push(ps, caller) == Append(ps, caller)

\* propose, lines 158-160: register the caller once
propose_participants(ps, caller) ==
    IF ~(caller \in Range(ps)) THEN Append(ps, caller) ELSE ps

\* propose that registers the caller but does not store the proposal
propose_proposals_not_stored(props, caller, triple) == props

\* propose that replaces the whole store by the caller's proposal
propose_proposals_only_caller(props, caller, triple) ==
    [a \in {caller} |-> triple]

\* propose, line 161: Mapping::insert
propose_proposals(props, caller, triple) ==
    [a \in (DOMAIN props) \cup {caller} |-> IF a = caller THEN triple ELSE props[a]]

\* propose, lines 147-152: the deadline check has an empty body
propose_result(is_past_deadline) ==
    IF is_past_deadline THEN "ok" ELSE "ok"

\* propose that pushes the caller to `winners` as well
propose_pushes_winner(caller, triple) ==
    /\ ~deadline_panics(slot_ids)
    /\ last' = [op |-> "propose", caller |-> caller, arg |-> triple, result |-> "ok"]
    /\ participants' = propose_participants(participants, caller)
    /\ proposals' = propose_proposals(proposals, caller, triple)
    /\ winners' = Append(winners, caller)
    /\ UNCHANGED <<auction_item, slot_ids, threshold, revealed_bids, authored, test>>
    /\ UNCHANGED <<exchange_storage, limited_use_vars, env_vars>>

propose(caller, triple) ==
    /\ IF deadline_panics(slot_ids)
       THEN /\ last' = [op |-> "propose", caller |-> caller, arg |-> triple, result |-> "panic"]
            /\ UNCHANGED <<participants, proposals>>
       ELSE LET is_past_deadline == check_slot(deadline_slot(slot_ids))
                result == propose_result(is_past_deadline)
            IN  /\ last' = [op |-> "propose", caller |-> caller, arg |-> triple,
                            result |-> result]
                /\ IF result = "ok"
                   THEN /\ participants' = propose_participants(participants, caller)
                        /\ proposals' = propose_proposals(proposals, caller, triple)
                   ELSE UNCHANGED <<participants, proposals>>
    /\ UNCHANGED <<auction_item, slot_ids, threshold, winners, revealed_bids, authored, test>>
    /\ UNCHANGED <<exchange_storage, limited_use_vars, env_vars>>

\* bid that does not compute the deadline slot
bid_without_deadline(caller, amount) ==
    /\ last' = [op |-> "bid", caller |-> 0, arg |-> <<>>, result |-> "ok"]
    /\ UNCHANGED <<storage, authored, test>>
    /\ UNCHANGED <<exchange_storage, limited_use_vars, env_vars>>

\* bid that records the amount bid in the auction item
bid_stores_amount(caller, amount) ==
    /\ last' = [op |-> "bid", caller |-> 0, arg |-> <<>>,
                result |-> IF deadline_panics(slot_ids) THEN "panic" ELSE "ok"]
    /\ auction_item' = [auction_item EXCEPT !.amount = amount]
    /\ UNCHANGED <<slot_ids, threshold, proposals, participants, winners, revealed_bids,
                   authored, test>>
    /\ UNCHANGED <<exchange_storage, limited_use_vars, env_vars>>

\* bid, lines 168-184: every branch is empty
bid(caller, amount) ==
    /\ last' = [op |-> "bid", caller |-> 0, arg |-> <<>>,
                result |-> IF deadline_panics(slot_ids) THEN "panic" ELSE "ok"]
    /\ UNCHANGED <<storage, authored, test>>
    /\ UNCHANGED <<exchange_storage, limited_use_vars, env_vars>>

\* complete that returns early on the first failing proposal instead of
\* panicking, keeping the bids pushed so far
RECURSIVE complete_bids_early_return(_, _, _, _, _)
complete_bids_early_return(ps, props, pp, secrets, bids) ==
    IF ps = <<>> THEN [status |-> "ok", bids |-> bids]
    ELSE IF ~(Head(ps) \in DOMAIN props)
    THEN complete_bids_early_return(Tail(ps), props, pp, secrets, bids)
    ELSE LET proposal == props[Head(ps)]
             signed_tx == Decrypt(pp, proposal[1], proposal[2], proposal[3], secrets)
         IN  IF ~signed_tx.ok
             THEN [status |-> "error", bids |-> bids]
             ELSE complete_bids_early_return(Tail(ps), props, pp, secrets,
                                             Append(bids, signed_tx.msg))

\* complete that puts each plaintext at the front of the revealed list
RECURSIVE complete_bids_prepend(_, _, _, _, _)
complete_bids_prepend(ps, props, pp, secrets, bids) ==
    IF ps = <<>> THEN [status |-> "ok", bids |-> bids]
    ELSE IF ~(Head(ps) \in DOMAIN props)
    THEN complete_bids_prepend(Tail(ps), props, pp, secrets, bids)
    ELSE LET proposal == props[Head(ps)]
             signed_tx == Decrypt(pp, proposal[1], proposal[2], proposal[3], secrets)
         IN  IF ~signed_tx.ok
             THEN [status |-> "panic", bids |-> bids]
             ELSE complete_bids_prepend(Tail(ps), props, pp, secrets,
                                        <<signed_tx.msg>> \o bids)

\* complete, lines 195-207: decrypt every participant's proposal in
\* registration order and push the plaintext; `unwrap` panics on the first
\* proposal that fails to decrypt
RECURSIVE complete_bids(_, _, _, _, _)
complete_bids(ps, props, pp, secrets, bids) ==
    IF ps = <<>> THEN [status |-> "ok", bids |-> bids]
    ELSE IF ~(Head(ps) \in DOMAIN props)
    THEN complete_bids(Tail(ps), props, pp, secrets, bids)
    ELSE LET proposal == props[Head(ps)]
             signed_tx == Decrypt(pp, proposal[1], proposal[2], proposal[3], secrets)
         IN  IF ~signed_tx.ok
             THEN [status |-> "panic", bids |-> bids]
             ELSE complete_bids(Tail(ps), props, pp, secrets, Append(bids, signed_tx.msg))

\* complete, lines 188-193: the deadline check has an empty body
complete_result(is_past_deadline) ==
    IF ~is_past_deadline THEN "ok" ELSE "ok"

complete(pp, ids) ==
    /\ Len(revealed_bids) + Len(participants) <= MaxRevealed
    /\ IF deadline_panics(slot_ids)
       THEN /\ last' = [op |-> "complete", caller |-> 0, arg |-> ids, result |-> "panic"]
            /\ UNCHANGED revealed_bids
       ELSE LET is_past_deadline == check_slot(deadline_slot(slot_ids))
                r == IF complete_result(is_past_deadline) = "ok"
                     THEN complete_bids(participants, proposals, pp,
                                        ibe_extract(test_ibe_params.s, ids), revealed_bids)
                     ELSE [status |-> complete_result(is_past_deadline), bids |-> revealed_bids]
            IN  /\ last' = [op |-> "complete", caller |-> 0, arg |-> ids, result |-> r.status]
                \* a panic traps the call and the contract's storage is left as it was
                /\ revealed_bids' = IF r.status = "panic" THEN revealed_bids ELSE r.bids
    /\ UNCHANGED <<auction_item, slot_ids, threshold, proposals, participants, winners,
                   authored, test>>
    /\ UNCHANGED <<exchange_storage, limited_use_vars, env_vars>>

\* the slot clock: a block is authored in the deadline slot
author_block ==
    /\ ~deadline_panics(slot_ids)
    /\ ~check_slot(deadline_slot(slot_ids))
    /\ authored' = authored \cup {deadline_slot(slot_ids)}
    /\ last' = [op |-> "author_block", caller |-> 0, arg |-> <<>>, result |-> "ok"]
    /\ UNCHANGED <<storage, test>>
    /\ UNCHANGED <<exchange_storage, limited_use_vars, env_vars>>

Next ==
    \/ \E caller \in Accounts : \E triple \in ProposalInputs(caller) : propose(caller, triple)
    \/ \E caller \in Accounts : bid(caller, MaxBid)
    \/ \E ids \in SecretIds : complete(test_ibe_params.p, ids)
    \/ author_block

Spec == Init /\ [][Next]_vars

\* ------------------------------------------------------------------------
\* The round trip of the tests (can_complete_auction): encrypt a bid with
\* add_bid, then decrypt it with the secrets of a set of slots
\* ------------------------------------------------------------------------
InitRoundTrip ==
    /\ default
    /\ exchange_new /\ limited_use_none /\ env_idle
    /\ authored = {}
    /\ last = [op |-> "new", caller |-> 0, arg |-> <<>>, result |-> "ok"]
    /\ \E m \in 0..(Q - 1), n \in 1..MaxSlots, t \in 0..(MaxSlots + 1), rng \in 0..MaxRng :
         \E ids \in SUBSET (1..n) :
            test = [pc |-> "start", m |-> m, slots |-> [i \in 1..n |-> i], t |-> t,
                    rng |-> rng, ids |-> ids, res |-> <<>>,
                    out |-> [ok |-> FALSE, msg |-> 0, err |-> "none"]]

test_add_bid ==
    /\ test.pc = "start"
    /\ IF add_bid_panics(test.m, test.slots, test.t, test_ibe_params.p, test_ibe_params.q,
                         test.rng)
       THEN test' = [test EXCEPT !.pc = "panicked"]
       ELSE test' = [test EXCEPT !.pc = "encrypted",
                                 !.res = add_bid(test.m, test.slots, test.t,
                                                 test_ibe_params.p, test_ibe_params.q,
                                                 test.rng)]
    /\ UNCHANGED <<storage, authored, last>>
    /\ UNCHANGED <<exchange_storage, limited_use_vars, env_vars>>

test_decrypt ==
    /\ test.pc = "encrypted"
    /\ test' = [test EXCEPT !.pc = "decrypted",
                            !.out = Decrypt(test_ibe_params.p, test.res[1], test.res[2],
                                            test.res[3],
                                            ibe_extract(test_ibe_params.s, test.ids))]
    /\ UNCHANGED <<storage, authored, last>>
    /\ UNCHANGED <<exchange_storage, limited_use_vars, env_vars>>

NextRoundTrip == test_add_bid \/ test_decrypt

SpecRoundTrip == InitRoundTrip /\ [][NextRoundTrip]_vars

\* ------------------------------------------------------------------------
\* Properties
\* ------------------------------------------------------------------------
NoDup(s) == \A i, j \in DOMAIN s : s[i] = s[j] => i = j

IsPastDeadline == ~deadline_panics(slot_ids) /\ check_slot(deadline_slot(slot_ids))

\* the outcome of decrypting participant a's stored proposal with the
\* secrets of the slots ids
Dec(a, ids) ==
    Decrypt(test_ibe_params.p, proposals[a][1], proposals[a][2], proposals[a][3],
            ibe_extract(test_ibe_params.s, ids))

\* the bids a step appends to the revealed list
Appended == {revealed_bids'[j] : j \in (Len(revealed_bids) + 1)..Len(revealed_bids')}

\* C1: a propose made when the deadline slot has elapsed is rejected with
\* DeadlinePassed and leaves the participant registry and the proposal
\* store as they were.
C1_ProposeAfterDeadlineRejected ==
    [][(last'.op = "propose" /\ IsPastDeadline)
         => (last'.result = "DeadlinePassed" /\ UNCHANGED <<participants, proposals>>)]_vars

\* C2: a complete that follows a successful complete which revealed bids,
\* called with the same secrets, returns AlreadyCompleted and leaves the
\* revealed bids and the winner unchanged.
C2_SecondCompleteRejected ==
    [][(/\ last.op = "complete" /\ last.result = "ok" /\ revealed_bids # <<>>
        /\ last'.op = "complete" /\ last'.arg = last.arg)
         => (last'.result = "AlreadyCompleted" /\ UNCHANGED <<revealed_bids, winners>>)]_vars

\* C3: in a complete call, the bid of every participant whose proposal
\* decrypts with the supplied secrets is appended to the revealed bids, even
\* when another participant's proposal fails to decrypt.
C3_DecryptFailureIsolated ==
    [][last'.op = "complete"
         => \A a \in Range(participants) :
               Dec(a, last'.arg).ok => Dec(a, last'.arg).msg \in Appended]_vars

\* C4: after a successful complete the winner is the participant with the
\* greatest revealed amount, the earliest registered among those tied, and
\* the winner is empty only when the call revealed no bid.
C4_WinnerIsFirstMax ==
    (last.op = "complete" /\ last.result = "ok") =>
        LET n == Len(participants)
            off == Len(revealed_bids) - n
        IN  IF n = 0 THEN winners = <<>>
            ELSE \E i \in 1..n :
                    /\ winners = <<participants[i]>>
                    /\ \A j \in 1..n : revealed_bids[off + j] <= revealed_bids[off + i]
                    /\ \A j \in 1..(i - 1) : revealed_bids[off + j] < revealed_bids[off + i]

\* C5: the registry never holds a participant twice, a propose by a new
\* caller appends the caller at the end and a propose by a registered caller
\* leaves the registry as it is, no other call changes the registry, and the
\* proposal stored for the caller is the one of the latest propose.
C5_RegistryOrderedLastWriteWins ==
    [][/\ NoDup(participants')
       /\ (last'.op = "propose" /\ last'.result = "ok") =>
             /\ participants' = IF last'.caller \in Range(participants)
                                THEN participants
                                ELSE Append(participants, last'.caller)
             /\ DOMAIN proposals' = Range(participants')
             /\ proposals'[last'.caller] = last'.arg
       /\ (last'.op # "propose") => UNCHANGED <<participants, proposals>>]_vars

\* a registered participant has proposed again after a later participant
\* registered
C5_Witness ==
    /\ last.op = "propose" /\ last.result = "ok"
    /\ Len(participants) = 2
    /\ last.caller = participants[1]
    /\ proposals[last.caller] = last.arg

\* C6: once the revealed list is not empty, a propose changes neither the
\* participant registry nor the proposal store.
C6_NoProposalAfterCompleteBegan ==
    [][(revealed_bids # <<>> /\ last'.op = "propose")
         => UNCHANGED <<participants, proposals>>]_vars

\* C7: a propose or complete call that does not succeed leaves the whole
\* auction storage as it was before the call, also when complete fails at a
\* later participant after decrypting the earlier ones.
C7_FailedCallLeavesStateUnchanged ==
    [][(last'.op \in {"propose", "complete"} /\ last'.result # "ok")
         => UNCHANGED storage]_vars

\* a complete failed at the second participant after the first one's
\* proposal decrypted, and no revealed bid was left behind
C7_Witness ==
    /\ last.op = "complete" /\ last.result = "panic"
    /\ Len(participants) >= 2
    /\ Dec(participants[1], last.arg).ok
    /\ ~Dec(participants[2], last.arg).ok
    /\ revealed_bids = <<>>

\* C8: on an auction whose stored proposals are all valid encryptions, a
\* complete whose secrets cover fewer than threshold slots returns normally,
\* reveals nothing and leaves the winner empty; a complete whose secrets
\* cover at least threshold slots reveals every bid.
C8_InsufficientSharesSkipped ==
    [][(/\ last'.op = "complete" /\ threshold \in 1..Len(slot_ids)
        /\ participants # <<>>
        /\ \A a \in Range(participants) : Dec(a, Range(slot_ids)).ok) =>
          IF Cardinality(last'.arg \cap Range(slot_ids)) < threshold
          THEN /\ last'.result = "ok"
               /\ revealed_bids' = revealed_bids
               /\ winners' = <<>>
          ELSE \A a \in Range(participants) : Dec(a, last'.arg).msg \in Appended]_vars

\* C9: decrypting what add_bid produced for message m, schedule S and
\* threshold t, 1 <= t <= |S|, with the secrets of at least t slots of S
\* returns m.
C9_RoundTrip ==
    (/\ test.pc = "decrypted"
     /\ 1 <= test.t /\ test.t <= Len(test.slots)
     /\ Cardinality(test.ids \cap Range(test.slots)) >= test.t)
        => (test.out.ok /\ test.out.msg = test.m)

\* a bid locked to three slots with threshold two was recovered from the
\* secrets of the first and the third slot
C9_Witness ==
    /\ test.pc = "decrypted"
    /\ Len(test.slots) = 3 /\ test.t = 2 /\ test.ids = {1, 3}
    /\ test.rng > Q
    /\ test.out.ok /\ test.out.msg = test.m

\* C10: every auction that exists has 1 <= threshold <= number of slots.
C10_ThresholdValid == 1 <= threshold /\ threshold <= Len(slot_ids)

\* ---------------------------------------------------------------------
\* IrisAssetExchange

\* u64 quantities (amounts, prices, costs) are kept in words of WordBits bits
MaxWord == 2 ^ WordBits - 1

Amounts == {1, MaxWord}

\* the asking price: the largest, so that amount * price can overflow
Prices == {MaxWord}

AssetIds == {1, 2}

\* self.env().account_id(): the account of the contract itself
ContractAccount == 0

\* the status codes the runtime answers a chain extension call with
StatusCodes == 0..UnknownStatus

\* IrisErr::from_status_code of iris_asset_exchange: no status code is Ok
IrisErr_from_status_code(status_code) ==
    CASE status_code = 0 -> "FailTransferAsset"
      [] status_code = 1 -> "FailMintAssets"
      [] status_code = 2 -> "FailLockCurrency"
      [] status_code = 3 -> "FailUnlockCurrency"
      [] OTHER -> "panic"

\* a chain extension call followed by map_err(|_| {}): what the contract
\* holds afterwards, "trap" when from_status_code panicked
extension_call(fn, args, status_code) ==
    LET res == IrisErr_from_status_code(status_code)
    IN  [fn |-> fn, args |-> args,
         ret |-> IF res = "panic" THEN "trap" ELSE IF res = "Ok" THEN "Ok" ELSE "Err"]

\* amount * price on u64: the product when it fits the word; otherwise a
\* panic (overflow checks on) or the wrapped product (overflow checks off)
total_cost(amount, price) ==
    IF amount * price <= MaxWord
    THEN {[panic |-> FALSE, val |-> amount * price]}
    ELSE {[panic |-> TRUE, val |-> 0],
          [panic |-> FALSE, val |-> (amount * price) % (MaxWord + 1)]}

\* publish_sale, line 118: Mapping::insert under (caller, asset_id)
publish_sale_registry(reg, caller, asset_id, price) ==
    [k \in (DOMAIN reg) \cup {<<caller, asset_id>>} |->
        IF k = <<caller, asset_id>> THEN price ELSE reg[k]]

\* publish_sale, lines 110-120
publish_sale(caller, asset_id, amount, price, status_code) ==
    LET call == extension_call("mint", <<caller, ContractAccount, asset_id, amount>>,
                               status_code)
        arg  == <<asset_id, amount, price>>
    IN  /\ ext_calls' = <<call>>
        /\ IF call.ret = "trap"
           THEN /\ last' = [op |-> "publish_sale", caller |-> caller, arg |-> arg,
                            result |-> "panic"]
                /\ events' = <<>>
                /\ UNCHANGED registry
           ELSE /\ last' = [op |-> "publish_sale", caller |-> caller, arg |-> arg,
                            result |-> "ok"]
                /\ registry' = publish_sale_registry(registry, caller, asset_id, price)
                /\ events' = <<"AssetTransferSuccess">>
        /\ UNCHANGED <<auction_vars, limited_use_vars>>

\* purchase_tokens that hands over the asset before locking the payment
purchase_calls_transfer_first(caller, owner, asset_id, amount, cost, status) ==
    LET c1 == extension_call("transfer_asset", <<ContractAccount, caller, asset_id, amount>>,
                             status[1])
        c2 == extension_call("lock", <<cost>>, status[2])
        c3 == extension_call("unlock_and_transfer", <<owner>>, status[3])
    IN  IF c1.ret = "trap" THEN <<c1>>
        ELSE IF c2.ret = "trap" THEN <<c1, c2>>
        ELSE <<c1, c2, c3>>

\* purchase_tokens, lines 139-147: the chain extension calls issued, up to
\* and including the first that traps
purchase_calls(caller, owner, asset_id, amount, cost, status) ==
    LET c1 == extension_call("lock", <<cost>>, status[1])
        c2 == extension_call("transfer_asset", <<ContractAccount, caller, asset_id, amount>>,
                             status[2])
        c3 == extension_call("unlock_and_transfer", <<owner>>, status[3])
    IN  IF c1.ret = "trap" THEN <<c1>>
        ELSE IF c2.ret = "trap" THEN <<c1, c2>>
        ELSE <<c1, c2, c3>>

\* purchase_tokens, lines 122-153
purchase_tokens(caller, owner, asset_id, amount, status) ==
    LET arg == <<owner, asset_id, amount>>
        ret(result) == [op |-> "purchase_tokens", caller |-> caller, arg |-> arg,
                        result |-> result]
    IN  /\ IF <<owner, asset_id>> \in DOMAIN registry
           THEN \E cost \in total_cost(amount, registry[<<owner, asset_id>>]) :
                  IF cost.panic
                  THEN last' = ret("panic") /\ ext_calls' = <<>> /\ events' = <<>>
                  ELSE LET calls == purchase_calls(caller, owner, asset_id, amount,
                                                   cost.val, status)
                       IN  /\ ext_calls' = calls
                           /\ IF calls[Len(calls)].ret = "trap"
                              THEN last' = ret("panic") /\ events' = <<>>
                              ELSE last' = ret("ok") /\ events' = <<"AssetTransferSuccess">>
           ELSE /\ last' = ret("ok")
                /\ ext_calls' = <<>>
                /\ events' = <<"AssetNotRegistered">>
        /\ UNCHANGED <<registry, auction_vars, limited_use_vars>>

InitExchange ==
    /\ default
    /\ authored = {}
    /\ test = idle
    /\ exchange_new /\ limited_use_none /\ env_idle
    /\ last = [op |-> "new", caller |-> 0, arg |-> <<>>, result |-> "ok"]

\* the status codes drawn for the three calls of one purchase: a code
\* from_status_code knows up to call k, one it does not know from there on
PurchaseStatus == {[i \in 1..3 |-> IF i < k THEN 0 ELSE UnknownStatus] : k \in 1..4}

NextExchange ==
    \E caller \in Accounts, asset_id \in AssetIds, amount \in Amounts :
        \/ \E price \in Prices, status_code \in StatusCodes :
              publish_sale(caller, asset_id, amount, price, status_code)
        \/ \E owner \in Accounts, status \in PurchaseStatus :
              purchase_tokens(caller, owner, asset_id, amount, status)

SpecExchange == InitExchange /\ [][NextExchange]_vars

\* ---------------------------------------------------------------------
\* LimitedUseRuleContract

Limits == 0..MaxLimit

\* execute calls counted per address, up to one more than any limit
MaxUses == MaxLimit + 1

\* the status codes the runtime answers query_owner with: the success code,
\* the code from_status_code knows, and one it does not
RuleStatusCodes == {0, 6, 7}

\* IrisErr::from_status_code of limited_use: no status code is Ok
limited_use_from_status_code(status_code) ==
    CASE status_code = 6 -> "FailQueryOwner"
      [] OTHER -> "panic"

\* query_owner(caller, asset_id).map_err(|_| {}).ok(), the runtime answering
\* with status_code and the boolean output
query_owner(caller, asset_id, status_code, output) ==
    LET res == limited_use_from_status_code(status_code)
    IN  [fn |-> "query_owner", args |-> <<caller, asset_id>>, out |-> output,
         ret |-> IF res = "panic" THEN "trap"
                 ELSE IF res = "Ok" THEN (IF output THEN "Some(true)" ELSE "Some(false)")
                 ELSE "None"]

\* a constructor without the check of the limit
limited_use_new_unchecked(l) ==
    /\ ~instantiated
    /\ last' = [op |-> "new", caller |-> 0, arg |-> l, result |-> "ok"]
    /\ limit' = l
    /\ instantiated' = TRUE
    /\ UNCHANGED <<asset_registry, usage_counter, executions>>
    /\ ext_calls' = <<>> /\ events' = <<>>
    /\ UNCHANGED <<auction_vars, exchange_storage>>

\* LimitedUseRuleContract::new, lines 90-98
limited_use_new(l) ==
    /\ ~instantiated
    /\ IF l <= 0
       THEN /\ last' = [op |-> "new", caller |-> 0, arg |-> l, result |-> "panic"]
            /\ UNCHANGED <<limit, instantiated>>
       ELSE /\ last' = [op |-> "new", caller |-> 0, arg |-> l, result |-> "ok"]
            /\ limit' = l
            /\ instantiated' = TRUE
    /\ UNCHANGED <<asset_registry, usage_counter, executions>>
    /\ ext_calls' = <<>> /\ events' = <<>>
    /\ UNCHANGED <<auction_vars, exchange_storage>>

\* LimitedUseRuleContract::get_limit, lines 100-102
get_limit ==
    /\ instantiated
    /\ last' = [op |-> "get_limit", caller |-> 0, arg |-> <<>>, result |-> limit]
    /\ ext_calls' = <<>> /\ events' = <<>>
    /\ UNCHANGED <<limited_use_vars, auction_vars, exchange_storage>>

\* register, lines 107-128
register(caller, asset_id, status_code, output) ==
    LET ret(result) == [op |-> "register", caller |-> caller, arg |-> asset_id,
                        result |-> result]
        call == query_owner(caller, asset_id, status_code, output)
    IN  /\ instantiated
        /\ IF asset_id \in DOMAIN asset_registry
           THEN /\ last' = ret("ok")
                /\ ext_calls' = <<>>
                /\ events' = <<"AlreadyRegistered">>
                /\ UNCHANGED asset_registry
           ELSE /\ ext_calls' = <<call>>
                /\ IF call.ret = "trap"
                   THEN last' = ret("panic") /\ events' = <<>> /\ UNCHANGED asset_registry
                   ELSE IF call.ret = "Some(true)"
                   THEN /\ last' = ret("ok")
                        /\ asset_registry' =
                              [a \in (DOMAIN asset_registry) \cup {asset_id} |->
                                  IF a = asset_id THEN caller ELSE asset_registry[a]]
                        /\ events' = <<"RegistrationSuccessful">>
                   ELSE /\ last' = ret("ok")
                        /\ events' = <<"CallerIsNotOwner">>
                        /\ UNCHANGED asset_registry
        /\ UNCHANGED <<limit, usage_counter, instantiated, executions>>
        /\ UNCHANGED <<auction_vars, exchange_storage>>

\* execute, lines 130-136: the body is empty, the call returns normally
execute(caller, asset_id) ==
    /\ instantiated
    /\ executions[caller] < MaxUses
    /\ last' = [op |-> "execute", caller |-> caller, arg |-> asset_id, result |-> "ok"]
    /\ executions' = [executions EXCEPT ![caller] = @ + 1]
    /\ ext_calls' = <<>> /\ events' = <<>>
    /\ UNCHANGED <<limited_use_storage, instantiated>>
    /\ UNCHANGED <<auction_vars, exchange_storage>>

InitLimitedUse ==
    /\ default
    /\ authored = {}
    /\ test = idle
    /\ exchange_new /\ limited_use_none /\ env_idle
    /\ last = [op |-> "none", caller |-> 0, arg |-> <<>>, result |-> "ok"]

NextLimitedUse ==
    \/ \E l \in Limits : limited_use_new(l)
    \/ get_limit
    \/ \E caller \in Accounts, asset_id \in AssetIds :
          \/ \E status_code \in RuleStatusCodes, output \in BOOLEAN :
                register(caller, asset_id, status_code, output)
          \/ execute(caller, asset_id)

SpecLimitedUse == InitLimitedUse /\ [][NextLimitedUse]_vars

\* the amount whose encryption participant a has stored, 0 when the stored
\* proposal is no encryption of an amount for this auction
Plaintext(a) ==
    LET ms == {m \in 1..MaxBid :
                 /\ ~add_bid_panics(m, slot_ids, threshold, test_ibe_params.p,
                                    test_ibe_params.q, BidderRng(m))
                 /\ proposals[a] = add_bid(m, slot_ids, threshold, test_ibe_params.p,
                                           test_ibe_params.q, BidderRng(m))}
    IN  IF ms = {} THEN 0 ELSE CHOOSE m \in ms : TRUE

\* C11: no propose, bid or complete call (nor the slot clock) changes the
\* slot schedule, the threshold or the auction item.
C11_CreationParametersFixed ==
    [][UNCHANGED <<slot_ids, threshold, auction_item>>]_vars

\* proposals were made, a bid call and then a complete that revealed bids
\* have run on the auction created for item "test1"
C11_Witness ==
    /\ last.op = "complete" /\ last.result = "ok"
    /\ revealed_bids # <<>>
    /\ auction_item = [name |-> "test1", asset_id |-> 1, amount |-> 1]
    /\ slot_ids = [i \in 1..MaxSlots |-> i] /\ threshold = TestThreshold

\* C12: when the ledger's mint call of publish_sale fails, the price is
\* still recorded in the registry under (caller, asset_id), and the caller
\* sees the failure: the call does not signal success.
C12_MintFailureReported ==
    [][(last'.op = "publish_sale" /\ ext_calls'[1].ret = "Err") =>
          /\ <<last'.caller, last'.arg[1]>> \in DOMAIN registry'
          /\ registry'[<<last'.caller, last'.arg[1]>>] = last'.arg[3]
          /\ "AssetTransferSuccess" \notin Range(events')]_vars

C14_UsageWithinLimit ==
    instantiated => \A a \in Accounts : executions[a] <= limit

\* C15: a register of an asset that is not registered yet, by a caller whom
\* the runtime's query_owner confirms as the owner, records the caller as the
\* admin of the asset and emits RegistrationSuccessful.
C15_OwnerRegisters ==
    [][(/\ last'.op = "register"
        /\ last'.arg \notin DOMAIN asset_registry
        /\ ext_calls'[1].out = TRUE) =>
          /\ last'.arg \in DOMAIN asset_registry'
          /\ asset_registry'[last'.arg] = last'.caller
          /\ events' = <<"RegistrationSuccessful">>]_vars

\* C16: creation with limit 0 fails and creates no contract, a created
\* contract has the positive limit it was given, no later call changes the
\* limit, and get_limit returns it.
C16_LimitPositiveAndFixed ==
    /\ ~instantiated
    /\ [][/\ (last'.op = "new" /\ last'.arg = 0)
               => (last'.result = "panic" /\ ~instantiated')
          /\ (instantiated' /\ ~instantiated)
               => (last'.op = "new" /\ limit' = last'.arg /\ limit' > 0)
          /\ instantiated => (instantiated' /\ limit' = limit)
          /\ (last'.op = "get_limit") => (last'.result = limit /\ limit > 0)]_vars

\* get_limit returned the limit of a contract on which execute calls had
\* been made
C16_Witness ==
    /\ last.op = "get_limit" /\ last.result = MaxLimit
    /\ limit = MaxLimit
    /\ \E a \in Accounts : executions[a] > 0

\* C17: a complete made while the deadline slot has not elapsed stops with
\* an error and appends nothing to the revealed bids, also when the secrets
\* supplied cover at least threshold slots.
C17_CompleteBeforeDeadlineStops ==
    [][(/\ last'.op = "complete"
        /\ ~deadline_panics(slot_ids) /\ ~check_slot(deadline_slot(slot_ids))
        /\ threshold \in 1..Len(slot_ids)
        /\ participants # <<>>
        /\ \A a \in Range(participants) : Plaintext(a) # 0
        /\ Cardinality(last'.arg \cap Range(slot_ids)) >= threshold)
         => (last'.result # "ok" /\ revealed_bids' = revealed_bids)]_vars

\* C18: the first complete on an auction past its deadline, with secrets
\* that decrypt every stored proposal, returns normally and leaves as
\* revealed bids exactly the plaintexts of the stored proposals, one per
\* registered participant, in registration order.
C18_FirstCompleteRevealsAll ==
    [][(/\ last'.op = "complete"
        /\ IsPastDeadline
        /\ revealed_bids = <<>>
        /\ \A a \in Range(participants) : Plaintext(a) # 0
        /\ Cardinality(last'.arg \cap Range(slot_ids)) >= threshold)
         => (/\ last'.result = "ok"
             /\ revealed_bids' = [i \in 1..Len(participants) |-> Plaintext(participants[i])])]_vars

\* two participants with different amounts were revealed in registration
\* order by a complete after the deadline
C18_Witness ==
    /\ last.op = "complete" /\ last.result = "ok"
    /\ IsPastDeadline
    /\ Len(participants) = 2 /\ Len(revealed_bids) = 2
    /\ revealed_bids[1] # revealed_bids[2]
    /\ revealed_bids = <<Plaintext(participants[1]), Plaintext(participants[2])>>

\* C19: a propose on an auction with a schedule is accepted whatever its
\* arguments, stores exactly the triple under the caller, leaves every other
\* stored proposal as it was and keeps the registry's order, a new caller
\* going to the end.
C19_ProposeStoresTripleOnly ==
    [][(last'.op = "propose" /\ ~deadline_panics(slot_ids)) =>
          /\ last'.result = "ok"
          /\ proposals'[last'.caller] = last'.arg
          /\ DOMAIN proposals' = (DOMAIN proposals) \cup {last'.caller}
          /\ \A a \in (DOMAIN proposals) \ {last'.caller} : proposals'[a] = proposals[a]
          /\ SubSeq(participants', 1, Len(participants)) = participants
          /\ Len(participants') <= Len(participants) + 1
          /\ (Len(participants') = Len(participants) + 1
                => participants'[Len(participants')] = last'.caller)]_vars

\* a malformed proposal was accepted from a second participant while the
\* first participant's stored encryption stayed in place
C19_Witness ==
    /\ last.op = "propose" /\ last.result = "ok" /\ last.arg = Garbage
    /\ Len(participants) = 2 /\ last.caller = participants[2]
    /\ proposals[participants[2]] = Garbage
    /\ Plaintext(participants[1]) # 0

\* C20: the revealed bids and the winners are empty at creation, and a
\* propose or a bid never changes them.
C20_RevealedOnlyByComplete ==
    /\ (revealed_bids = <<>> /\ winners = <<>>)
    /\ [][(last'.op \in {"propose", "bid"}) => UNCHANGED <<revealed_bids, winners>>]_vars

\* proposals and a bid call have run and nothing is revealed
C20_Witness ==
    /\ last.op = "bid" /\ last.result = "ok"
    /\ Len(participants) = 2
    /\ revealed_bids = <<>> /\ winners = <<>>

\* C21: in every state of the auction the accounts in the participant
\* registry are exactly the keys of the proposal store.
C21_ParticipantsAreProposers ==
    Range(participants) = DOMAIN proposals

\* two accounts have proposed, the first of them twice, and completion has
\* since run
C21_Witness ==
    /\ last.op = "complete"
    /\ Len(participants) = 2
    /\ DOMAIN proposals = {participants[1], participants[2]}
    /\ proposals[participants[1]] = Garbage
    /\ proposals[participants[2]] # Garbage

\* C22: on an auction with an empty slot schedule every propose, bid and
\* complete aborts, and the auction has no participant, no proposal and no
\* revealed bid.
C22_EmptyScheduleInert ==
    slot_ids = <<>> =>
       /\ participants = <<>> /\ DOMAIN proposals = {} /\ revealed_bids = <<>>
       /\ (last.op \in {"propose", "bid", "complete"}) => last.result = "panic"

\* a propose has been made on the auction of the default constructor
C22_Witness ==
    /\ slot_ids = <<>> /\ auction_item.name = ""
    /\ last.op = "propose" /\ last.result = "panic"
    /\ participants = <<>>

====
